---- MODULE Spec2Model ----
(***************************************************************************)
(* Model of the Echo engine of src/echo.py: an Echo instance with a fixed  *)
(* prefix and suffix, its _history list, and the calls a single-threaded   *)
(* caller makes on it.  A string is a sequence of one-character strings.   *)
(***************************************************************************)
EXTENDS Integers, Sequences, FiniteSets, TLC

VARIABLES prefix, suffix, _history, call, ret, log, pc, handles,
          stdout, exit_code

vars == <<prefix, suffix, _history, call, ret, log, pc, handles,
          stdout, exit_code>>

(***************************************************************************)
(* Bounds of the model.                                                    *)
(***************************************************************************)
\* the storing calls are explored while _history is shorter than this
MaxHist == 2
\* echo_repeat is called with times in -1 .. MaxTimes
MaxTimes == 2
\* main is called with at most this many arguments
MaxArgs == 3

(***************************************************************************)
(* Values: strings, optional strings, the two shapes of echo's input.      *)
(***************************************************************************)
None == [isNone |-> TRUE, val |-> <<>>]
Some(s) == [isNone |-> FALSE, val |-> s]

StrIn(s) == [type |-> "str", s |-> s, items |-> <<>>]
ListIn(l) == [type |-> "list", s |-> <<>>, items |-> l]

\* constructor arguments tried
Prefixes == {<<>>, <<"[", "a">>}
Suffixes == {<<>>, <<"B", "]">>}

\* arguments tried by the caller
Texts == {<<>>, <<"a", "B">>}
Lists == {<<>>, <<Some(<<"a">>), None>>}
Inputs == {StrIn(s) : s \in Texts} \cup {ListIn(l) : l \in Lists}
RepeatTexts == {<<>>, <<"a", "B">>}
Separators == {<<" ">>, <<"-">>}
Times == (0 - 1) .. MaxTimes

\* what the caller does to a list it got from get_history
Mutations == {"append", "pop", "replace"}
Modified == <<"M">>

(***************************************************************************)
(* The filesystem collaborator: for each path, what open(path, 'r') and    *)
(* then f.read() do.  An exception is named by its Python class.           *)
(***************************************************************************)
File(o, r, c) == [open |-> o, read |-> r, content |-> c]

Paths == {"/tmp/ok.txt", "/tmp/empty.txt", "/nonexistent/file.txt",
          "/root/secret.txt", "/tmp", "/mnt/bad/file.txt", "/tmp/bin.dat",
          "a\\0b", "../../sensitive.txt", "../../../etc/passwd", "/etc/shadow"}

FileSystem ==
  [p \in Paths |->
     CASE p = "/tmp/ok.txt"           -> File("ok", "ok", <<"a", "b">>)
       [] p = "/tmp/empty.txt"        -> File("ok", "ok", <<>>)
       [] p = "/nonexistent/file.txt" -> File("FileNotFoundError", "ok", <<>>)
       [] p = "/root/secret.txt"      -> File("PermissionError", "ok", <<>>)
       [] p = "/tmp"                  -> File("IsADirectoryError", "ok", <<>>)
       [] p = "/mnt/bad/file.txt"     -> File("ok", "OSError", <<>>)
       [] p = "/tmp/bin.dat"          -> File("ok", "UnicodeDecodeError", <<>>)
       [] p = "a\\0b"                 -> File("ValueError", "ok", <<>>)
       [] p = "../../sensitive.txt"   -> File("ok", "ok", <<"a", "b">>)
       [] p = "../../../etc/passwd"   -> File("ok", "ok", <<"a", "b">>)
       [] p = "/etc/shadow"           -> File("PermissionError", "ok", <<>>)]

\* the file at path can be opened and read
Readable(path) == FileSystem[path].open = "ok" /\ FileSystem[path].read = "ok"

\* IOError is OSError; FileNotFoundError, PermissionError and
\* IsADirectoryError are its subclasses, ValueError and UnicodeDecodeError
\* are not
IsOSError(exc) ==
  exc \in {"OSError", "FileNotFoundError", "PermissionError", "IsADirectoryError"}

\* except (FileNotFoundError, IOError)
Caught(exc) == exc = "FileNotFoundError" \/ IsOSError(exc)

(***************************************************************************)
(* The caller's last step and what it got back.                            *)
(***************************************************************************)
Call(op, text, store, times, sep, path) ==
  [op |-> op, text |-> text, store_history |-> store, times |-> times,
   separator |-> sep, path |-> path]

NoCall == Call("__init__", StrIn(<<>>), FALSE, 0, <<>>, "")

Ret(kind, str, alias, items, exc) ==
  [kind |-> kind, str |-> str, alias |-> alias, items |-> items, exc |-> exc]

NoRet == Ret("none", <<>>, FALSE, <<>>, "")
Pending == Ret("pending", <<>>, FALSE, <<>>, "")
StrRet(s) == Ret("str", s, FALSE, <<>>, "")
NoneRet == Ret("None", <<>>, FALSE, <<>>, "")
Raised(exc) == Ret("raise", <<>>, FALSE, <<>>, exc)
\* a returned list object: the engine's own list (alias) or a list of its own
ListRet(l) == Ret("list", <<>>, l.alias, l.items, "")

\* the contents of the list object the caller holds
ListOf(r) == IF r.alias THEN _history ELSE r.items

(***************************************************************************)
(* String functions.                                                       *)
(***************************************************************************)
\* a stringification that drops an absent item
Str_empty(item) == item.val

\* str(item)
Str(item) == IF item.isNone THEN <<"N", "o", "n", "e">> ELSE item.val

\* separator.join(parts)
RECURSIVE Join(_, _)
Join(sep, parts) ==
  IF Len(parts) = 0 THEN <<>>
  ELSE IF Len(parts) = 1 THEN parts[1]
  ELSE parts[1] \o sep \o Join(sep, Tail(parts))

\* one copy too many
Copies_extra(text, times) == [i \in 1 .. times + 1 |-> text]

\* [text] * times
Copies(text, times) == [i \in 1 .. times |-> text]

UpperChar(c) == CASE c = "a" -> "A" [] c = "b" -> "B" [] OTHER -> c
LowerChar(c) == CASE c = "A" -> "a" [] c = "B" -> "b" [] OTHER -> c

\* text.upper(), text.lower(), text[::-1]
upper(text) == [i \in 1 .. Len(text) |-> UpperChar(text[i])]
lower(text) == [i \in 1 .. Len(text) |-> LowerChar(text[i])]
reverse(text) == [i \in 1 .. Len(text) |-> text[Len(text) + 1 - i]]

\* a read of the first character only
read_one(f) == SubSeq(f.content, 1, 1)

\* f.read(): the entire content of the file
read(f) == f.content

(***************************************************************************)
(* Echo.echo: the returned string and the history after the call.          *)
(***************************************************************************)
\* an echo that formats with the default (empty) prefix and suffix
echo_defaults(text, store_history) ==
  LET t == IF text.type = "list"
           THEN Join(<<" ">>, [i \in 1 .. Len(text.items) |-> Str(text.items[i])])
           ELSE text.s
  IN [result |-> t,
      history |-> IF store_history THEN Append(_history, t) ELSE _history]

\* an echo that records every result, asked or not
echo_always_store(text, store_history) ==
  LET t == IF text.type = "list"
           THEN Join(<<" ">>, [i \in 1 .. Len(text.items) |-> Str(text.items[i])])
           ELSE text.s
      result == prefix \o t \o suffix
  IN [result |-> result, history |-> Append(_history, result)]

\* an echo that records the newest result first
echo_prepend(text, store_history) ==
  LET t == IF text.type = "list"
           THEN Join(<<" ">>, [i \in 1 .. Len(text.items) |-> Str(text.items[i])])
           ELSE text.s
      result == prefix \o t \o suffix
  IN [result |-> result,
      history |-> IF store_history THEN <<result>> \o _history ELSE _history]

echo(text, store_history) ==
  LET t == IF text.type = "list"
           THEN Join(<<" ">>, [i \in 1 .. Len(text.items) |-> Str(text.items[i])])
           ELSE text.s
      result == prefix \o t \o suffix
  IN [result |-> result,
      history |-> IF store_history THEN Append(_history, result) ELSE _history]

\* an echo_repeat without the check of times
echo_repeat_unchecked(text, times, separator) ==
  LET r == echo(StrIn(Join(separator, Copies(text, times))), TRUE)
  IN [raised |-> FALSE, result |-> r.result, history |-> r.history]

\* Echo.echo_repeat: raises on a negative count, else echoes the joined copies
echo_repeat(text, times, separator) ==
  IF times < 0
  THEN [raised |-> TRUE, result |-> <<>>, history |-> _history]
  ELSE LET r == echo(StrIn(Join(separator, Copies(text, times))), TRUE)
       IN [raised |-> FALSE, result |-> r.result, history |-> r.history]

\* a get_history that hands out the engine's own list
get_history_alias == [alias |-> TRUE, items |-> <<>>]

\* Echo.get_history: self._history.copy()
get_history == [alias |-> FALSE, items |-> _history]

\* a clear that drops only the newest entry
clear_history_pop == SubSeq(_history, 1, Len(_history) - 1)

\* Echo.clear_history: self._history.clear()
clear_history == <<>>

\* a close that is skipped when the body raised
WithExit_no_finally(open_files, f, exc) ==
  IF exc = "ok" THEN open_files \ {f} ELSE open_files

\* leaving the with block closes the file, whether the body raised or not
WithExit(open_files, f, exc) == open_files \ {f}

(***************************************************************************)
(* The ghost record of the claims: the strings returned by the successful  *)
(* calls that asked for storage, since construction or the last clear.     *)
(***************************************************************************)
Logged(requested) ==
  log' = IF requested /\ ret'.kind = "str" THEN Append(log, ret'.str) ELSE log

(***************************************************************************)
(* Initial state: Echo.__init__                                            *)
(***************************************************************************)
Init ==
  /\ prefix \in Prefixes
  /\ suffix \in Suffixes
  /\ _history = <<>>
  /\ call = NoCall
  /\ ret = NoRet
  /\ log = <<>>
  /\ pc = "idle"
  /\ handles = {}
  /\ stdout = <<>>
  /\ exit_code = <<>>

(***************************************************************************)
(* The calls.                                                              *)
(***************************************************************************)
Echo(text, store_history) ==
  /\ pc = "idle"
  /\ store_history => Len(_history) < MaxHist
  /\ call' = Call("echo", text, store_history, 0, <<>>, "")
  /\ LET r == echo(text, store_history)
     IN /\ ret' = StrRet(r.result)
        /\ _history' = r.history
  /\ Logged(store_history)
  /\ UNCHANGED <<prefix, suffix, pc, handles, stdout, exit_code>>

\* an echo_upper that uppercases the formatted result: self.echo(text).upper()
EchoUpper_whole(text) ==
  /\ pc = "idle"
  /\ Len(_history) < MaxHist
  /\ call' = Call("echo_upper", StrIn(text), TRUE, 0, <<>>, "")
  /\ LET r == echo(StrIn(text), TRUE)
     IN /\ ret' = StrRet(upper(r.result))
        /\ _history' = r.history
  /\ Logged(TRUE)
  /\ UNCHANGED <<prefix, suffix, pc, handles, stdout, exit_code>>

EchoUpper(text) ==
  /\ pc = "idle"
  /\ Len(_history) < MaxHist
  /\ call' = Call("echo_upper", StrIn(text), TRUE, 0, <<>>, "")
  /\ LET r == echo(StrIn(upper(text)), TRUE)
     IN /\ ret' = StrRet(r.result)
        /\ _history' = r.history
  /\ Logged(TRUE)
  /\ UNCHANGED <<prefix, suffix, pc, handles, stdout, exit_code>>

EchoLower(text) ==
  /\ pc = "idle"
  /\ Len(_history) < MaxHist
  /\ call' = Call("echo_lower", StrIn(text), TRUE, 0, <<>>, "")
  /\ LET r == echo(StrIn(lower(text)), TRUE)
     IN /\ ret' = StrRet(r.result)
        /\ _history' = r.history
  /\ Logged(TRUE)
  /\ UNCHANGED <<prefix, suffix, pc, handles, stdout, exit_code>>

EchoReverse(text) ==
  /\ pc = "idle"
  /\ Len(_history) < MaxHist
  /\ call' = Call("echo_reverse", StrIn(text), TRUE, 0, <<>>, "")
  /\ LET r == echo(StrIn(reverse(text)), TRUE)
     IN /\ ret' = StrRet(r.result)
        /\ _history' = r.history
  /\ Logged(TRUE)
  /\ UNCHANGED <<prefix, suffix, pc, handles, stdout, exit_code>>

EchoRepeat(text, times, separator) ==
  /\ pc = "idle"
  /\ times >= 0 => Len(_history) < MaxHist
  /\ call' = Call("echo_repeat", StrIn(text), TRUE, times, separator, "")
  /\ LET r == echo_repeat(text, times, separator)
     IN /\ ret' = IF r.raised THEN Raised("ValueError") ELSE StrRet(r.result)
        /\ _history' = r.history
  /\ Logged(TRUE)
  /\ UNCHANGED <<prefix, suffix, pc, handles, stdout, exit_code>>

GetHistory ==
  /\ pc = "idle"
  /\ call' = Call("get_history", StrIn(<<>>), FALSE, 0, <<>>, "")
  /\ ret' = ListRet(get_history)
  /\ UNCHANGED <<prefix, suffix, _history, log, pc, handles, stdout, exit_code>>

ClearHistory ==
  /\ pc = "idle"
  /\ call' = Call("clear_history", StrIn(<<>>), FALSE, 0, <<>>, "")
  /\ _history' = clear_history
  /\ ret' = NoneRet
  /\ log' = <<>>
  /\ UNCHANGED <<prefix, suffix, pc, handles, stdout, exit_code>>

\* echo_file up to open(filepath, 'r'): the call ends here when open raises
EchoFileOpen(filepath) ==
  /\ pc = "idle"
  /\ Readable(filepath) => Len(_history) < MaxHist
  /\ call' = Call("echo_file", StrIn(<<>>), TRUE, 0, <<>>, filepath)
  /\ LET exc == FileSystem[filepath].open
     IN IF exc = "ok"
        THEN /\ handles' = handles \cup {filepath}
             /\ pc' = "reading"
             /\ ret' = Pending
        ELSE /\ handles' = handles
             /\ pc' = "idle"
             /\ ret' = IF Caught(exc) THEN NoneRet ELSE Raised(exc)
  /\ Logged(TRUE)
  /\ UNCHANGED <<prefix, suffix, _history, stdout, exit_code>>

\* echo_file from f.read() to its return
EchoFileRead ==
  /\ pc = "reading"
  /\ LET f == FileSystem[call.path]
     IN /\ handles' = WithExit(handles, call.path, f.read)
        /\ IF f.read = "ok"
           THEN LET r == echo(StrIn(read(f)), TRUE)
                IN /\ ret' = StrRet(r.result)
                   /\ _history' = r.history
           ELSE /\ ret' = IF Caught(f.read) THEN NoneRet ELSE Raised(f.read)
                /\ _history' = _history
  /\ pc' = "idle"
  /\ Logged(TRUE)
  /\ UNCHANGED <<prefix, suffix, call, stdout, exit_code>>

\* the caller changes the list it got from get_history
Mutate(m, l) ==
  CASE m = "append" -> Append(l, Modified)
    [] m = "pop" -> SubSeq(l, 1, Len(l) - 1)
    [] m = "replace" -> [l EXCEPT ![1] = Modified]

MutateReturned(m) ==
  /\ pc = "idle"
  /\ ret.kind = "list"
  /\ IF m = "append" THEN Len(ListOf(ret)) <= MaxHist ELSE Len(ListOf(ret)) > 0
  /\ call' = Call("mutate_returned", StrIn(<<>>), FALSE, 0, <<>>, "")
  /\ IF ret.alias
     THEN /\ _history' = Mutate(m, _history)
          /\ ret' = ret
     ELSE /\ _history' = _history
          /\ ret' = [ret EXCEPT !.items = Mutate(m, ret.items)]
  /\ UNCHANGED <<prefix, suffix, log, pc, handles, stdout, exit_code>>

Next ==
  \/ \E text \in Inputs, store_history \in BOOLEAN : Echo(text, store_history)
  \/ \E text \in Texts : EchoUpper(text)
  \/ \E text \in Texts : EchoLower(text)
  \/ \E text \in Texts : EchoReverse(text)
  \/ \E text \in RepeatTexts, times \in Times, separator \in Separators :
       EchoRepeat(text, times, separator)
  \/ GetHistory
  \/ ClearHistory
  \/ \E filepath \in Paths : EchoFileOpen(filepath)
  \/ EchoFileRead
  \/ \E m \in Mutations : MutateReturned(m)

Spec == Init /\ [][Next]_vars

(***************************************************************************)
(* The command line entry point, main.  stdout holds the lines the last    *)
(* call of main printed, exit_code the code it returned (empty until it    *)
(* returns), and prefix, suffix and _history are those of the Echo that    *)
(* main constructs.                                                        *)
(***************************************************************************)
\* command line arguments tried
ArgWords == {<<>>, <<"a">>, <<"b">>, <<"a", "B">>, <<"-">>}
ArgLists == UNION {[1 .. n -> ArgWords] : n \in 0 .. MaxArgs}

\* print("Usage: echo.py <text>")
Usage == <<"U", "s", "a", "g", "e", ":", " ", "e", "c", "h", "o", ".", "p", "y",
           " ", "<", "t", "e", "x", "t", ">">>

\* the arguments of the running call of main
MainArgs == [i \in 1 .. Len(call.text.items) |-> call.text.items[i].val]

\* a main that echoes its first argument only
main_text_first(args) == args[1]

\* " ".join(args)
main_text(args) == Join(<<" ">>, args)

InitMain ==
  /\ Init
  /\ prefix = <<>>
  /\ suffix = <<>>

\* main up to echo = Echo(): the call ends here when there are no arguments
MainStart(args) ==
  /\ pc = "idle"
  /\ call' = Call("main", ListIn([i \in 1 .. Len(args) |-> Some(args[i])]),
                  FALSE, 0, <<>>, "")
  /\ ret' = NoRet
  /\ IF Len(args) = 0
     THEN /\ stdout' = <<Usage>>
          /\ exit_code' = <<1>>
          /\ pc' = "idle"
          /\ UNCHANGED <<prefix, suffix, _history, log>>
     ELSE /\ prefix' = <<>>
          /\ suffix' = <<>>
          /\ _history' = <<>>
          /\ log' = <<>>
          /\ stdout' = <<>>
          /\ exit_code' = <<>>
          /\ pc' = "main"
  /\ UNCHANGED handles

\* main from echo.echo(" ".join(args)) to return 0
MainEcho ==
  /\ pc = "main"
  /\ LET r == echo(StrIn(main_text(MainArgs)), TRUE)
     IN /\ ret' = StrRet(r.result)
        /\ _history' = r.history
        /\ stdout' = Append(stdout, r.result)
  /\ Logged(TRUE)
  /\ exit_code' = <<0>>
  /\ pc' = "idle"
  /\ UNCHANGED <<prefix, suffix, call, handles>>

NextMain ==
  \/ \E args \in ArgLists : MainStart(args)
  \/ MainEcho

SpecMain == InitMain /\ [][NextMain]_vars

TypeOK ==
  /\ pc \in {"idle", "reading", "main"}
  /\ ret.kind \in {"none", "pending", "str", "None", "list", "raise"}
  /\ Len(_history) <= MaxHist + 1
(***************************************************************************)
(* Properties.                                                             *)
(***************************************************************************)
Last(l) == l[Len(l)]

\* C1: the history is, in call order, exactly the strings returned by the
\* successful calls that asked for storage since construction or the last
\* clear_history, and it gets shorter only by clear_history.
C1_HistoryIsReturnedLog ==
  /\ [](_history = log)
  /\ [][Len(_history') < Len(_history) => call'.op = "clear_history"]_vars

C1_Witness ==
  /\ pc = "idle"
  /\ call.op = "echo_file"
  /\ Len(_history) >= 2
  /\ _history[1] # _history[2]
  /\ Last(_history) = ret.str

\* the elements of items up to the n-th, each absent one written "None",
\* with one space between neighbours
RECURSIVE SpaceJoined(_, _)
SpaceJoined(items, n) ==
  LET word == IF items[n] = None THEN <<"N", "o", "n", "e">> ELSE items[n].val
  IN IF n = 0 THEN <<>>
     ELSE IF n = 1 THEN word
     ELSE SpaceJoined(items, n - 1) \o <<" ">> \o word

\* C2: echo returns prefix + body + suffix, the body being a string input
\* itself, or the elements of a sequence input joined by one space with an
\* absent element written "None".
C2_EchoFormats ==
  call.op = "echo" =>
    /\ ret.kind = "str"
    /\ ret.str = prefix
                 \o (IF call.text.type = "str" THEN call.text.s
                     ELSE SpaceJoined(call.text.items, Len(call.text.items)))
                 \o suffix

C2_Witness ==
  /\ call.op = "echo"
  /\ call.text.type = "list"
  /\ \E i \in 1 .. Len(call.text.items) : call.text.items[i] = None
  /\ prefix # <<>>
  /\ ret.kind = "str"

\* the last call was an echo_file whose file could not be opened or read
EchoFileFailed ==
  /\ call.op = "echo_file"
  /\ pc = "idle"
  /\ ~Readable(call.path)

\* C3: on any failure to open or read the file echo_file returns None,
\* raises nothing and leaves the history as it was.
C3_FailureGivesNone ==
  [][EchoFileFailed' => (ret'.kind = "None" /\ _history' = _history)]_vars

\* C4: echo_repeat with times < 0 raises ValueError, returns nothing and
\* leaves the history unchanged.
C4_NegativeTimesRaises ==
  [][(call'.op = "echo_repeat" /\ call'.times < 0) =>
       (ret'.kind = "raise" /\ ret'.exc = "ValueError" /\ _history' = _history)]_vars

C4_Witness ==
  /\ call.op = "echo_repeat"
  /\ call.times < 0
  /\ ret.kind = "raise"
  /\ Len(_history) > 0

\* body is times copies of text with separator between neighbours
IsRepeated(body, text, times, separator) ==
  LET step == Len(text) + Len(separator)
  IN /\ Len(body) = IF times = 0 THEN 0 ELSE times * step - Len(separator)
     /\ \A k \in 0 .. times - 1 :
          SubSeq(body, k * step + 1, k * step + Len(text)) = text
     /\ \A k \in 0 .. times - 2 :
          SubSeq(body, k * step + Len(text) + 1, (k + 1) * step) = separator

\* the part of s between a prefix and a suffix of the engine's lengths
Inner(s) == SubSeq(s, Len(prefix) + 1, Len(s) - Len(suffix))

\* C5: echo_repeat with times >= 0 returns prefix + R + suffix, R being
\* times copies of text joined by separator (empty for times = 0), and
\* records the returned string in history.
C5_RepeatJoinsCopies ==
  [][(call'.op = "echo_repeat" /\ call'.times >= 0) =>
       /\ ret'.kind = "str"
       /\ ret'.str = prefix \o Inner(ret'.str) \o suffix
       /\ IsRepeated(Inner(ret'.str), call'.text.s, call'.times, call'.separator)
       /\ _history' = Append(_history, ret'.str)]_vars

C5_Witness ==
  /\ call.op = "echo_repeat"
  /\ call.times >= 2
  /\ call.separator = <<"-">>
  /\ suffix # <<>>
  /\ Len(_history) >= 2
  /\ Last(_history) = ret.str

\* C6: get_history returns the history as a list of the caller's own:
\* changing that list never changes the engine's history, so a later
\* get_history returns the history again.
C6_HistoryCopyIsIndependent ==
  [][/\ call'.op = "get_history" =>
          /\ ret'.kind = "list"
          /\ (IF ret'.alias THEN _history' ELSE ret'.items) = _history
          /\ _history' = _history
     /\ call'.op = "mutate_returned" => _history' = _history]_vars

C6_Witness ==
  /\ call.op = "mutate_returned"
  /\ ret.kind = "list"
  /\ Len(_history) > 0
  /\ ListOf(ret) # _history

\* C7: echo(s, store_history=False) returns the formatted string and leaves
\* the history unchanged.
C7_NoStoreLeavesHistory ==
  [][(call'.op = "echo" /\ call'.text.type = "str" /\ ~call'.store_history) =>
       /\ ret'.kind = "str"
       /\ ret'.str = prefix \o call'.text.s \o suffix
       /\ _history' = _history]_vars

C7_Witness ==
  /\ call.op = "echo"
  /\ call.text.type = "str"
  /\ ~call.store_history
  /\ Len(_history) > 0
  /\ ret.str # Last(_history)

\* C8: after clear_history the history is empty, a following get_history
\* returns the empty sequence, and a following storing call leaves exactly
\* its own result in the history.
C8_ClearEmptiesHistory ==
  /\ [](call.op = "clear_history" => _history = <<>>)
  /\ [][call.op = "clear_history" =>
          /\ call'.op = "get_history" =>
               (ret'.kind = "list" /\ ~ret'.alias /\ ret'.items = <<>>)
          /\ Len(_history') > 0 => _history' = <<ret'.str>>]_vars

C8_Witness ==
  /\ call.op = "clear_history"
  /\ _history = <<>>
  /\ ret.kind = "None"

\* C9: when the file can be opened and read, echo_file returns
\* prefix + content + suffix and appends that string to the history.
C9_FileContentEchoed ==
  [][(call'.op = "echo_file" /\ pc = "reading" /\ pc' = "idle"
      /\ Readable(call'.path)) =>
       /\ ret'.kind = "str"
       /\ ret'.str = prefix \o FileSystem[call'.path].content \o suffix
       /\ _history' = Append(_history, ret'.str)]_vars

C9_Witness ==
  /\ call.op = "echo_file"
  /\ pc = "idle"
  /\ Readable(call.path)
  /\ FileSystem[call.path].content # <<>>
  /\ prefix # <<>>
  /\ Len(_history) >= 2
  /\ Last(_history) = ret.str

\* C10: no file handle is open between two engine operations: every handle
\* echo_file opened is closed when it returns or raises.
C10_NoHandleAcrossCalls == pc = "idle" => handles = {}

C10_Witness ==
  /\ call.op = "echo_file"
  /\ pc = "idle"
  /\ FileSystem[call.path].open = "ok"
  /\ FileSystem[call.path].read # "ok"
  /\ handles = {}
\* s begins with p; s ends with q
StartsWith(s, p) == Len(s) >= Len(p) /\ SubSeq(s, 1, Len(p)) = p
EndsWith(s, q) == Len(s) >= Len(q) /\ SubSeq(s, Len(s) - Len(q) + 1, Len(s)) = q

\* C11: no operation, successful or failing, changes prefix or suffix, so
\* every returned string begins with the constructor's prefix and ends with
\* the constructor's suffix.
C11_PrefixSuffixFixed ==
  /\ [][prefix' = prefix /\ suffix' = suffix]_vars
  /\ [](ret.kind = "str" =>
          (/\ Len(ret.str) >= Len(prefix) + Len(suffix)
           /\ StartsWith(ret.str, prefix)
           /\ EndsWith(ret.str, suffix)))

C11_Witness ==
  /\ prefix # <<>>
  /\ suffix # <<>>
  /\ ret.kind = "raise"
  /\ call.op = "echo_file"
  /\ Len(_history) >= 2
\* the lower-case and upper-case form of each cased character
CasePairs == {<<"a", "A">>, <<"b", "B">>}

\* t is s with every character in upper case, in lower case, in reverse order
IsUpperOf(t, s) ==
  /\ Len(t) = Len(s)
  /\ \A i \in 1 .. Len(s) :
       IF \E cp \in CasePairs : s[i] \in {cp[1], cp[2]}
       THEN \E cp \in CasePairs : s[i] \in {cp[1], cp[2]} /\ t[i] = cp[2]
       ELSE t[i] = s[i]

IsLowerOf(t, s) ==
  /\ Len(t) = Len(s)
  /\ \A i \in 1 .. Len(s) :
       IF \E cp \in CasePairs : s[i] \in {cp[1], cp[2]}
       THEN \E cp \in CasePairs : s[i] \in {cp[1], cp[2]} /\ t[i] = cp[1]
       ELSE t[i] = s[i]

IsReverseOf(t, s) ==
  /\ Len(t) = Len(s)
  /\ \A i \in 1 .. Len(s) : t[i] = s[Len(s) + 1 - i]

\* C14: echo_upper, echo_lower and echo_reverse return prefix + T + suffix,
\* T being the text alone in upper case, in lower case or reversed, and
\* append that string to the history as one entry, as echo of T does.
C14_TransformsEchoInnerText ==
  [][call'.op \in {"echo_upper", "echo_lower", "echo_reverse"} =>
       /\ ret'.kind = "str"
       /\ ret'.str = prefix \o Inner(ret'.str) \o suffix
       /\ call'.op = "echo_upper" => IsUpperOf(Inner(ret'.str), call'.text.s)
       /\ call'.op = "echo_lower" => IsLowerOf(Inner(ret'.str), call'.text.s)
       /\ call'.op = "echo_reverse" => IsReverseOf(Inner(ret'.str), call'.text.s)
       /\ _history' = Append(_history, ret'.str)]_vars

C14_Witness ==
  /\ call.op = "echo_upper"
  /\ call.text.s = <<"a", "B">>
  /\ prefix = <<"[", "a">>
  /\ suffix # <<>>
  /\ Len(_history) >= 2
  /\ Last(_history) = ret.str
\* the paths of test_path_traversal_protection
DangerousPaths == {"../../../etc/passwd", "../../sensitive.txt", "/etc/shadow"}

\* C13: for a path that climbs out of the working directory or names a
\* sensitive system file, echo_file returns None and records nothing.
C13_TraversalRefused ==
  [][(call'.op = "echo_file" /\ pc' = "idle" /\ call'.path \in DangerousPaths) =>
       (ret'.kind = "None" /\ _history' = _history)]_vars
\* C12: main with no arguments prints the usage message and returns 1
\* without echoing; with arguments it echoes them joined by one space through
\* an Echo with empty prefix and suffix, prints the result and returns 0.
C12_MainContract ==
  /\ []((call.op = "main" /\ pc = "idle") =>
          IF call.text.items = <<>>
          THEN /\ stdout = <<Usage>>
               /\ exit_code = <<1>>
          ELSE LET joined == SpaceJoined(call.text.items, Len(call.text.items))
               IN /\ prefix = <<>>
                  /\ suffix = <<>>
                  /\ ret = StrRet(joined)
                  /\ _history = <<joined>>
                  /\ stdout = <<joined>>
                  /\ exit_code = <<0>>)
  /\ [][(call'.op = "main" /\ call'.text.items = <<>>) =>
          (_history' = _history /\ log' = log /\ ret'.kind # "str")]_vars

C12_Witness ==
  /\ call.op = "main"
  /\ pc = "idle"
  /\ Len(call.text.items) >= 3
  /\ call.text.items[1] # call.text.items[2]
  /\ call.text.items[3].val # <<>>
  /\ exit_code = <<0>>
  /\ stdout = <<ret.str>>
====
